---- MODULE Spec2Model ----
(***************************************************************************)
(* Model of cost.py: signup / login against the users.json object, the     *)
(* two-state session, and the price search.                                *)
(*                                                                         *)
(* A session is one browser session; each of its handlers runs to the end  *)
(* before the session's next one starts.  Two sessions interleave at the   *)
(* storage calls, so signup_page is two steps: everything up to and        *)
(* including the get_object of load_user_data, then the put_object of      *)
(* save_user_data with the message that follows it.                        *)
(***************************************************************************)
EXTENDS Integers, Sequences, FiniteSets, TLC

\* ---------------------------------------------------------------- bounds
MaxTime == 1            \* created_at stamps are drawn from 1..MaxTime
MaxRows == 2            \* rows of a price table (the spec's example table is added)

\* ------------------------------------------------------ program constants
MinUsernameLen == 4
MaxUsernameLen == 20
MinPasswordLen == 8

\* ---------------------------------------------------------------- inputs
None == "<None>"                      \* Python's None, where a string is expected
U20  == "abcdefghijklmnopqrst"        \* 20 characters
U21  == "abcdefghijklmnopqrstu"       \* 21 characters

Sessions         == {"s1", "s2"}
SignupUsernames  == {"abc", "abcd", "ABCD", U20, U21}
SignupPasswords  == {"1234567", "12345678", "abcdefgh"}
LoginUsernames   == {"", None, "abcd"}
LoginPasswords   == {"", None, "12345678", "abcdefgh"}
StoredUsernames  == {"abcd"}
StoredPasswords  == {"12345678"}
Times            == 1..MaxTime

\* ------------------------------------------------------------ messages
\* The messages the handlers render (st.error / st.success / st.warning), named
\* by what they say; the source's texts are Korean.
ErrUsernameLength == "username must be 4-20 characters"
ErrPasswordLength == "password must be at least 8 characters"
ErrMismatch       == "passwords do not match"
ErrTaken          == "username already exists"
SignupOk          == "signup completed"
SignupErr         == "error during signup"
LoginOk           == "login succeeded"
LoginErr          == "username or password is not correct"
Pending           == "<no message yet>"
SearchResults     == "search results: n rows"
NoResults         == "no search results"
DataErr           == "failed to load the price data"
Unexpected        == "unexpected error, try again later"

\* ------------------------------------------------------- pure functions
\* A Python dict with string keys is a function on its set of keys.
EmptyDict == [k \in {} |-> None]

DictSet(d, k, v) == [x \in (DOMAIN d) \cup {k} |-> IF x = k THEN v ELSE d[x]]

\* sha256(...).hexdigest(): deterministic, collision-free on the inputs of the
\* model, and never equal to its plaintext.
hash_password(password) == <<"sha256", password>>

\* json.dumps / json.loads of a dict of str -> {str: str}: the text holds the
\* dict and parsing gives it back.
json_dumps(d) == <<"json", d>>

json_loads(body) == body[2]

\* get_object + json.loads; any failure gives {} (one get_object either way).
load_user_data(blob, ok) == IF ok THEN json_loads(blob) ELSE EmptyDict

\* Python truthiness of an Optional[str]
Falsy(x) == x = None \/ x = ""

validate_login_noguard(username, password, blob, ok) ==
    LET data == load_user_data(blob, ok)
    IN  [result |-> /\ username \in DOMAIN data
                    /\ data[username].password = hash_password(password),
         reads  |-> 1]

validate_login_cached(username, password, blob, ok) ==
    IF Falsy(username) \/ Falsy(password)
    THEN [result |-> FALSE, reads |-> 0]
    ELSE [result |-> /\ username \in DOMAIN json_loads(blob)
                     /\ json_loads(blob)[username].password = hash_password(password),
          reads  |-> 0]

\* validate_login: its verdict and the number of get_object calls it made.
\* (The two definitions before this one are validate_login with a fault put in:
\* the early return dropped, and a table held in memory in place of the
\* get_object of each call.  C5 and C4 fail on them.)
validate_login(username, password, blob, ok) ==
    IF Falsy(username) \/ Falsy(password)
    THEN [result |-> FALSE, reads |-> 0]
    ELSE LET data == load_user_data(blob, ok)
         IN  [result |-> /\ username \in DOMAIN data
                         /\ data[username].password = hash_password(password),
              reads  |-> 1]

\* (signup_checks with a fault put in: <= for < at the lower bound.  C3 fails
\* on it.)
signup_checks_offbyone(new_username, new_password, confirm_password) ==
    IF Len(new_username) <= MinUsernameLen \/ Len(new_username) > MaxUsernameLen
    THEN ErrUsernameLength
    ELSE IF Len(new_password) < MinPasswordLen THEN ErrPasswordLength
    ELSE IF new_password # confirm_password THEN ErrMismatch
    ELSE Pending

\* The three checks of signup_page made before the table is loaded.
signup_checks(new_username, new_password, confirm_password) ==
    IF Len(new_username) < MinUsernameLen \/ Len(new_username) > MaxUsernameLen
    THEN ErrUsernameLength
    ELSE IF Len(new_password) < MinPasswordLen THEN ErrPasswordLength
    ELSE IF new_password # confirm_password THEN ErrMismatch
    ELSE Pending

\* ------------------------------------------------------------ price search
\* A string of the price table or of the search box is a tuple of characters;
\* NA is a missing product name (None / NaN in the column).
NA == <<"<NA>">>

isna(x) == x = NA

\* Code points of the characters the model's strings are made of.
Ord(c) ==
    CASE c = " " -> 32 [] c = "(" -> 40 [] c = "." -> 46
      [] c = "A" -> 65 [] c = "B" -> 66 [] c = "W" -> 87
      [] c = "a" -> 97 [] c = "b" -> 98 [] c = "d" -> 100 [] c = "e" -> 101
      [] c = "g" -> 103 [] c = "i" -> 105 [] c = "t" -> 116 [] c = "w" -> 119

\* str.lower() on one character
lower(c) ==
    CASE c = "A" -> "a" [] c = "B" -> "b" [] c = "W" -> "w" [] OTHER -> c

\* Python's < on str: lexicographic by code point, a proper prefix is smaller.
StrLess(a, b) ==
    \E k \in 1..(Len(b)) :
        /\ k <= Len(a) + 1
        /\ \A j \in 1..(k - 1) : a[j] = b[j]
        /\ (k = Len(a) + 1 \/ Ord(a[k]) < Ord(b[k]))

\* re.compile(pat, re.IGNORECASE): over the characters of the model a pattern is
\* letters, blanks, "." and "("; one with a "(" has no ")" to close it and
\* re.compile raises re.error.
regex_compiles(pat) == \A j \in 1..Len(pat) : pat[j] # "("

\* One pattern element against one character, under re.IGNORECASE: "." is any
\* character (the model has no newline), a letter is itself in either case.
regex_elem(pc, c) == pc = "." \/ lower(pc) = lower(c)

\* regex.search(x): the pattern matches at some position of x.
regex_search(pat, x) ==
    \E i \in 1..(Len(x) - Len(pat) + 1) :
        \A j \in 1..Len(pat) : regex_elem(pat[j], x[i + j - 1])

\* Series.str.contains(pat, case=False, na=False); regex=True is the default.
str_contains(x, pat) == IF isna(x) THEN FALSE ELSE regex_search(pat, x)

\* (price_mask with a fault put in: > for >= at the lower bound.  C7 fails on
\* it.)
price_mask_exclusive(row, search_term, min_price, max_price) ==
    /\ str_contains(row.product_name, search_term)
    /\ row.price > min_price
    /\ row.price <= max_price

\* The mask of search_price, for one row.
price_mask(row, search_term, min_price, max_price) ==
    /\ str_contains(row.product_name, search_term)
    /\ row.price >= min_price
    /\ row.price <= max_price

\* The sort options of the select box.
PRICE_ASC  == "price ascending"
PRICE_DESC == "price descending"
NAME_ASC   == "by name"

\* a may come before b in the sorted frame
key_le(sort_order, a, b) ==
    IF sort_order = PRICE_ASC THEN a.price <= b.price
    ELSE IF sort_order = PRICE_DESC THEN a.price >= b.price
    ELSE a.product_name = b.product_name \/ StrLess(a.product_name, b.product_name)

Perms(S) ==
    {p \in [1..Cardinality(S) -> S] : \A i, j \in 1..Cardinality(S) : i # j => p[i] # p[j]}

\* DataFrame.sort_values(column[, ascending=False]) on the rows `rows` (index
\* labels) of df.  kind is left at its default, 'quicksort', which pandas
\* documents as not stable: rows come out ordered by the key, rows of equal key
\* in an order the library does not specify.  Every such order is an outcome.
sort_values(df, rows, sort_order) ==
    {p \in Perms(rows) :
        \A i, j \in 1..Len(p) : i < j => key_le(sort_order, df[p[i]], df[p[j]])}

\* load_price_data: get_object + read_sql_table; any failure gives an empty frame.
\* (read_sql_table is handed the response body where pandas wants a database
\* connection, so a run may well always take the failure branch; both are kept.)
load_price_data(db, ok) == IF ok THEN db ELSE <<>>

\* search_price after the button: the message rendered and the index labels of
\* the rows shown, in order.  An exception leaves search_price and main, and the
\* handler at the bottom of the script renders the generic error.
search_price(db, ok, search_term, sort_order, min_price, max_price) ==
    LET price_df == load_price_data(db, ok)
        rows == {i \in 1..Len(price_df) :
                    price_mask(price_df[i], search_term, min_price, max_price)}
    IN  IF Len(price_df) = 0 THEN {[msg |-> DataErr, result |-> <<>>]}
        ELSE IF ~regex_compiles(search_term) THEN {[msg |-> Unexpected, result |-> <<>>]}
        ELSE IF rows = {} THEN {[msg |-> NoResults, result |-> <<>>]}
        ELSE {[msg |-> SearchResults, result |-> p] :
                 p \in sort_values(price_df, rows, sort_order)}

\* -------------------------------------------------------- search inputs
ProductNames == {NA, <<"A">>, <<"a", "b">>}
PriceValues  == {50, 100}
SearchTerms  == {<<>>, <<"a">>, <<"B">>, <<".">>, <<"(">>}
MinPrices    == {0, 100}
MaxPrices    == {50, 150}
SortOrders   == {PRICE_ASC, PRICE_DESC, NAME_ASC}

PriceRows == [product_name : ProductNames, price : PriceValues]

\* The example of the specification: its table and its query.
WidgetA == <<"W", "i", "d", "g", "e", "t", " ", "A">>
WidgetB == <<"W", "i", "d", "g", "e", "t", " ", "B">>
Gadget  == <<"g", "a", "d", "g", "e", "t">>

ExampleTable ==
    << [product_name |-> WidgetA, price |-> 100],
       [product_name |-> WidgetB, price |-> 50],
       [product_name |-> Gadget,  price |-> 200] >>

ExampleQuery ==
    [search_term |-> <<"w", "i", "d", "g", "e", "t">>, sort_order |-> NAME_ASC,
     min_price |-> 0, max_price |-> 150]

PriceTables ==
    UNION {[1..n -> PriceRows] : n \in 0..MaxRows} \cup {ExampleTable}

Queries ==
    [search_term : SearchTerms, sort_order : SortOrders,
     min_price : MinPrices, max_price : MaxPrices] \cup {ExampleQuery}

\* the price tables and queries of the specification of the whole application
FewTables  == {ExampleTable}
FewQueries == {ExampleQuery,
               [search_term |-> <<>>, sort_order |-> PRICE_ASC,
                min_price |-> 0, max_price |-> 1000000]}

\* ---------------------------------------------------------------- state
VARIABLES
    users_blob,   \* body of the users.json object in the bucket
    price_db,     \* the prices table of the price database object in the bucket
    user_data,    \* the module-level global user_data
    logged_in,    \* st.session_state.logged_in, per session
    username,     \* st.session_state.username, per session
    pc,           \* per session: "idle", or "saving" inside signup_page
    local,        \* per session: signup_page's local variables while saving
    last          \* the last handler step: who, what, inputs, message, storage calls

vars == <<users_blob, price_db, user_data, logged_in, username, pc, local, last>>

NoLocal == [new_username |-> None, new_password |-> None, user_data |-> EmptyDict]

UserRecords == [password : {hash_password(p) : p \in StoredPasswords}, created_at : {0}]

InitialTables ==
    UNION {[D -> UserRecords] : D \in SUBSET StoredUsernames}

InitRest ==
    /\ user_data = EmptyDict
    /\ logged_in = [s \in Sessions |-> FALSE]
    /\ username = [s \in Sessions |-> None]
    /\ pc = [s \in Sessions |-> "idle"]
    /\ local = [s \in Sessions |-> NoLocal]
    /\ last = [op |-> "start"]

Init ==
    /\ users_blob \in {json_dumps(t) : t \in InitialTables}
    /\ price_db \in FewTables
    /\ InitRest

\* -------------------------------------------------------------- actions
\* (login_page with a fault put in: the verdict of validate_login is not looked
\* at.  C6 fails on it.)
login_page_nocheck(s, u, p, ok) ==
    LET v == validate_login(u, p, users_blob, ok)
    IN  /\ pc[s] = "idle"
        /\ ~logged_in[s]
        /\ logged_in' = [logged_in EXCEPT ![s] = TRUE]
        /\ username' = [username EXCEPT ![s] = u]
        /\ last' = [op |-> "login", s |-> s, username |-> u, password |-> p,
                    ok |-> ok, reads |-> v.reads, writes |-> 0,
                    msg |-> IF v.result THEN LoginOk ELSE LoginErr]
        /\ UNCHANGED <<users_blob, price_db, user_data, pc, local>>

\* login_page, submit pressed (shown only while not logged in).
login_page(s, u, p, ok) ==
    LET v == validate_login(u, p, users_blob, ok)
    IN  /\ pc[s] = "idle"
        /\ ~logged_in[s]
        /\ IF v.result
           THEN /\ logged_in' = [logged_in EXCEPT ![s] = TRUE]
                /\ username' = [username EXCEPT ![s] = u]
           ELSE UNCHANGED <<logged_in, username>>
        /\ last' = [op |-> "login", s |-> s, username |-> u, password |-> p,
                    ok |-> ok, reads |-> v.reads, writes |-> 0,
                    msg |-> IF v.result THEN LoginOk ELSE LoginErr]
        /\ UNCHANGED <<users_blob, price_db, user_data, pc, local>>

LoginPage ==
    \E s \in Sessions, u \in LoginUsernames, p \in LoginPasswords, ok \in BOOLEAN :
        login_page(s, u, p, ok)

\* logout (the button is shown only while logged in).
logout(s) ==
    /\ pc[s] = "idle"
    /\ logged_in[s]
    /\ logged_in' = [logged_in EXCEPT ![s] = FALSE]
    /\ username' = [username EXCEPT ![s] = None]
    /\ last' = [op |-> "logout", s |-> s, reads |-> 0, writes |-> 0]
    /\ UNCHANGED <<users_blob, price_db, user_data, pc, local>>

Logout == \E s \in Sessions : logout(s)

\* signup_page, submit pressed, up to and including load_user_data and the
\* insertion of the new record into the local table (lines 123-145).
signup_submit(s, nu, np, cp, ok, now) ==
    LET err    == signup_checks(nu, np, cp)
        loaded == load_user_data(users_blob, ok)
        reads  == IF err = Pending THEN 1 ELSE 0
        msg    == IF err # Pending THEN err
                  ELSE IF nu \in DOMAIN loaded THEN ErrTaken ELSE Pending
    IN  /\ pc[s] = "idle"
        /\ ~logged_in[s]
        /\ IF msg = Pending
           THEN /\ pc' = [pc EXCEPT ![s] = "saving"]
                /\ local' = [local EXCEPT ![s] =
                      [new_username |-> nu, new_password |-> np,
                       user_data |-> DictSet(loaded, nu,
                           [password |-> hash_password(np), created_at |-> now])]]
           ELSE UNCHANGED <<pc, local>>
        /\ last' = [op |-> "signup_submit", s |-> s, username |-> nu, password |-> np,
                    confirm |-> cp, ok |-> ok, reads |-> reads, writes |-> 0,
                    msg |-> msg]
        /\ UNCHANGED <<users_blob, price_db, user_data, logged_in, username>>

SignupSubmit ==
    \E s \in Sessions, nu \in SignupUsernames, np \in SignupPasswords,
       cp \in SignupPasswords, ok \in BOOLEAN, now \in Times :
        signup_submit(s, nu, np, cp, ok, now)

\* save_user_data(user_Dict): the body it puts is json.dumps(user_data), the
\* module-level name (the parameter is user_Dict and is never read).
save_user_data(user_Dict, ok) ==
    [result |-> ok, body |-> json_dumps(user_data)]

\* signup_page, lines 147-151: save_user_data and the message.
signup_save(s, ok) ==
    LET r == save_user_data(local[s].user_data, ok)
    IN  /\ pc[s] = "saving"
        /\ users_blob' = IF r.result THEN r.body ELSE users_blob
        /\ pc' = [pc EXCEPT ![s] = "idle"]
        /\ local' = [local EXCEPT ![s] = NoLocal]
        /\ last' = [op |-> "signup_save", s |-> s,
                    username |-> local[s].new_username,
                    password |-> local[s].new_password,
                    ok |-> ok, reads |-> 0, writes |-> 1,
                    msg |-> IF r.result THEN SignupOk ELSE SignupErr]
        /\ UNCHANGED <<price_db, user_data, logged_in, username>>

SignupSave == \E s \in Sessions, ok \in BOOLEAN : signup_save(s, ok)

\* search_price, search button pressed (shown only while logged in).
search_page(s, q, ok) ==
    /\ pc[s] = "idle"
    /\ logged_in[s]
    /\ \E r \in search_price(price_db, ok, q.search_term, q.sort_order,
                             q.min_price, q.max_price) :
          last' = [op |-> "search", s |-> s, query |-> q, ok |-> ok,
                   reads |-> 1, writes |-> 0, msg |-> r.msg, result |-> r.result]
    /\ UNCHANGED <<users_blob, price_db, user_data, logged_in, username, pc, local>>

SearchPrice ==
    \E s \in Sessions, q \in FewQueries, ok \in BOOLEAN : search_page(s, q, ok)

Next == LoginPage \/ Logout \/ SignupSubmit \/ SignupSave \/ SearchPrice

Spec == Init /\ [][Next]_vars

\* ---------------------------------------------------------------------------
\* The price search on its own: one session logs in and searches, over every
\* price table and every query of the bounds.
SearchSession == "s1"

InitSearch ==
    /\ users_blob = json_dumps([u \in {"abcd"} |->
                       [password |-> hash_password("12345678"), created_at |-> 0]])
    /\ price_db \in PriceTables
    /\ InitRest

LoginSearch ==
    \E u \in LoginUsernames, p \in LoginPasswords, ok \in BOOLEAN :
        login_page(SearchSession, u, p, ok)

LogoutSearch == logout(SearchSession)

SearchAll ==
    \E q \in Queries, ok \in BOOLEAN : search_page(SearchSession, q, ok)

NextSearch == LoginSearch \/ LogoutSearch \/ SearchAll

SpecSearch == InitSearch /\ [][NextSearch]_vars
\* ===========================================================================
\* Properties
\* ===========================================================================
ValidationErrors == {ErrUsernameLength, ErrPasswordLength, ErrMismatch, ErrTaken}

stored == json_loads(users_blob)

\* C1: after a signup that passed every validation and whose save reported
\* success for username u with password p, validate_login(u, p) with the storage
\* reachable returns true, and validate_login(u, q) returns false for every
\* other password q.  (Stated on the state the successful save leaves.)
C1_LoginAfterSignup ==
    (last.op = "signup_save" /\ last.msg = SignupOk) =>
        /\ validate_login(last.username, last.password, users_blob, TRUE).result
        /\ \A q \in (LoginPasswords \cup SignupPasswords) \ {last.password} :
              ~validate_login(last.username, q, users_blob, TRUE).result

\* C2: a successful signup for a new username u writes exactly the loaded table
\* plus one record for u: every loaded record is stored unchanged, and u's record
\* holds hash_password(password), not the plaintext.
C2_SignupStoresLoadedPlusOne ==
    [][\A s \in Sessions :
          (/\ pc[s] = "saving" /\ pc'[s] = "idle"
           /\ last'.op = "signup_save" /\ last'.s = s /\ last'.msg = SignupOk)
          => LET u      == local[s].new_username
                 loaded == [k \in (DOMAIN local[s].user_data) \ {u} |->
                               local[s].user_data[k]]
                 after  == json_loads(users_blob')
             IN  /\ DOMAIN after = (DOMAIN loaded) \cup {u}
                 /\ \A k \in DOMAIN loaded : after[k] = loaded[k]
                 /\ after[u].password = hash_password(local[s].new_password)
                 /\ after[u].password # local[s].new_password
      ]_vars

\* C3: a signup is rejected iff the username length is below 4 or above 20, or
\* the password is shorter than 8, or the confirmation differs, or the username
\* is a key of the loaded table (case-sensitive); each cause has its own error,
\* and a rejection calls no save and leaves the stored table as it was.
C3_SignupRejection ==
    [][last'.op = "signup_submit" =>
          LET e        == last'
              loaded   == IF e.ok THEN json_loads(users_blob) ELSE EmptyDict
              badU     == Len(e.username) < 4 \/ Len(e.username) > 20
              badP     == Len(e.password) < 8
              badC     == e.confirm # e.password
              taken    == e.username \in DOMAIN loaded
              rejected == e.msg \in ValidationErrors
          IN  /\ rejected <=> (badU \/ badP \/ badC \/ taken)
              /\ Cardinality(ValidationErrors) = 4
              /\ e.msg = ErrUsernameLength => badU
              /\ e.msg = ErrPasswordLength => badP
              /\ e.msg = ErrMismatch => badC
              /\ e.msg = ErrTaken => taken
              /\ (badU /\ ~badP /\ ~badC) => e.msg = ErrUsernameLength
              /\ (~badU /\ badP /\ ~badC) => e.msg = ErrPasswordLength
              /\ (~badU /\ ~badP /\ badC) => e.msg = ErrMismatch
              /\ (~badU /\ ~badP /\ ~badC /\ taken) => e.msg = ErrTaken
              /\ rejected => /\ e.writes = 0
                             /\ users_blob' = users_blob
                             /\ pc'[e.s] = "idle"
              /\ ~rejected => pc'[e.s] = "saving"
      ]_vars

\* C3 witness: a signup with valid lengths and a matching confirmation was
\* rejected because the username is a key of the loaded table.
C3_Witness ==
    /\ last.op = "signup_submit"
    /\ last.msg = ErrTaken
    /\ last.username \in DOMAIN stored

\* C4: for a non-empty username and password, validate_login reads the table from
\* storage on that very call and returns true iff the username is a key of the
\* table read and its password field equals hash_password(password); when the
\* load fails it returns false.
C4_ValidateLogin ==
    [][(last'.op = "login" /\ ~Falsy(last'.username) /\ ~Falsy(last'.password)) =>
          LET e  == last'
              t  == json_loads(users_blob)
              known == e.username \in DOMAIN t
          IN  /\ e.reads = 1
              /\ e.ok => ((e.msg = LoginOk) <=>
                             (known /\ t[e.username].password = hash_password(e.password)))
              /\ ~e.ok => e.msg = LoginErr
      ]_vars

\* C4 witness: a login with a stored username and its password has succeeded.
C4_Witness ==
    /\ last.op = "login"
    /\ last.msg = LoginOk
    /\ last.username \in DOMAIN stored

\* C5: with an empty or missing username or password validate_login returns
\* false and makes no storage read.
C5_EmptyShortCircuit ==
    (last.op = "login" /\ (Falsy(last.username) \/ Falsy(last.password))) =>
        /\ last.msg = LoginErr
        /\ last.reads = 0

\* C5 witness: a login with an empty username and a stored user's password, the
\* storage reachable.
C5_Witness ==
    /\ last.op = "login"
    /\ last.username = ""
    /\ last.password = "12345678"
    /\ last.ok
    /\ last.msg = LoginErr

Anonymous(s)     == logged_in[s] = FALSE /\ username[s] = None
Authenticated(s) == logged_in[s] = TRUE /\ username[s] # None

\* C6: the session is ANONYMOUS or AUTHENTICATED; it starts ANONYMOUS, becomes
\* AUTHENTICATED only by a login whose validate_login returned true (username set
\* to the name that logged in), goes back to ANONYMOUS only by logout; a failed
\* login, a signup and a search leave it alone; no state is terminal.
C6_SessionStates ==
    /\ \A s \in Sessions : Anonymous(s)
    /\ [](\A s \in Sessions : Anonymous(s) \/ Authenticated(s))
    /\ [](\A s \in Sessions :
            /\ Authenticated(s) => ENABLED logout(s)
            /\ Anonymous(s) =>
                  ENABLED (\/ \E u \in LoginUsernames, p \in LoginPasswords :
                                 login_page(s, u, p, TRUE)
                           \/ signup_save(s, TRUE)))
    /\ [][\A s \in Sessions :
            /\ (Anonymous(s) /\ ~Anonymous(s)') =>
                  /\ last'.op = "login" /\ last'.s = s /\ last'.msg = LoginOk
                  /\ logged_in'[s] = TRUE
                  /\ username'[s] = last'.username
            /\ (Authenticated(s) /\ ~Authenticated(s)') =>
                  /\ last'.op = "logout" /\ last'.s = s
                  /\ Anonymous(s)'
            /\ (last'.op = "login" /\ last'.msg = LoginOk) =>
                  (logged_in'[last'.s] = TRUE /\ username'[last'.s] = last'.username)
            /\ last'.op = "logout" =>
                  (logged_in'[last'.s] = FALSE /\ username'[last'.s] = None)
            /\ (\/ last'.op \in {"signup_submit", "signup_save", "search"}
                \/ (last'.op = "login" /\ last'.msg = LoginErr)) =>
                  (logged_in' = logged_in /\ username' = username)
         ]_vars

\* C6 witness: a session that logged in has logged out and is ANONYMOUS again,
\* while the other one is AUTHENTICATED.
C6_Witness ==
    /\ last.op = "logout"
    /\ Anonymous(last.s)
    /\ \E t \in Sessions \ {last.s} : Authenticated(t) /\ username[t] = "abcd"

\* C10: two sessions sign up two different new usernames and both load the table
\* before either saves; both report success, and the table stored after the
\* second save holds the later saver's record and not the earlier saver's.
\* (The step is the second save: the earlier saver's success is the last thing
\* that happened, so the later saver had loaded before it.)
C10_LastWriterWins ==
    [][\A s \in Sessions :
          (/\ pc[s] = "saving"
           /\ last.op = "signup_save" /\ last.s # s /\ last.msg = SignupOk
           /\ last.username # local[s].new_username
           /\ pc'[s] = "idle"
           /\ last'.op = "signup_save" /\ last'.s = s /\ last'.msg = SignupOk)
          => LET after == json_loads(users_blob')
             IN  /\ local[s].new_username \in DOMAIN after
                 /\ after[local[s].new_username].password =
                        hash_password(local[s].new_password)
                 /\ last.username \notin DOMAIN after
      ]_vars

\* ---------------------------------------------------------------------------
\* Price search (properties of SpecSearch)
\* ---------------------------------------------------------------------------
\* t is a case-insensitive substring of x
IsSubstring(t, x) ==
    \E i \in 1..(Len(x) - Len(t) + 1) :
        \A j \in 1..Len(t) : lower(t[j]) = lower(x[i + j - 1])

\* t, read as a regular expression of letters, blanks and ".", matches somewhere
\* in x, letters in either case
IsRegexMatch(t, x) ==
    \E i \in 1..(Len(x) - Len(t) + 1) :
        \A j \in 1..Len(t) : t[j] = "." \/ lower(t[j]) = lower(x[i + j - 1])

InRange(row, q) == q.min_price <= row.price /\ row.price <= q.max_price

SubstringRows(q) ==
    {i \in 1..Len(price_db) :
        /\ price_db[i].product_name # NA
        /\ IsSubstring(q.search_term, price_db[i].product_name)
        /\ InRange(price_db[i], q)}

RegexRows(q) ==
    {i \in 1..Len(price_db) :
        /\ price_db[i].product_name # NA
        /\ IsRegexMatch(q.search_term, price_db[i].product_name)
        /\ InRange(price_db[i], q)}

Range(f) == {f[i] : i \in DOMAIN f}

\* the rows `result` (index labels) are in the order the sort key asks for
Ordered(result, sort_order) ==
    \A i, j \in 1..Len(result) : i < j =>
        LET a == price_db[result[i]]
            b == price_db[result[j]]
        IN  IF sort_order = PRICE_ASC THEN a.price <= b.price
            ELSE IF sort_order = PRICE_DESC THEN a.price >= b.price
            ELSE ~StrLess(b.product_name, a.product_name)

SameKey(a, b, sort_order) ==
    IF sort_order = NAME_ASC THEN a.product_name = b.product_name
    ELSE a.price = b.price

\* C8: the sort is stable: two rows of the result with equal price (equal name
\* under the name sort) are in the order they have in the price table.
C8_StableSort ==
    (last.op = "search" /\ last.msg = SearchResults) =>
        \A i, j \in 1..Len(last.result) :
            (i < j /\ SameKey(price_db[last.result[i]], price_db[last.result[j]],
                              last.query.sort_order))
            => last.result[i] < last.result[j]

\* C9: 'data unavailable' is reported iff loading the price table failed, and
\* 'no results' iff the table loaded and no row passed the filter (a loaded
\* table without rows and a query with min_price > max_price included).
C9_OutcomesDistinct ==
    last.op = "search" =>
        /\ (last.msg = DataErr) <=> ~last.ok
        /\ (last.msg = NoResults) <=>
              (last.ok /\ \A i \in 1..Len(price_db) :
                             ~price_mask(price_db[i], last.query.search_term,
                                         last.query.min_price, last.query.max_price))
====
